---- MODULE Spec2Model ----
(***************************************************************************)
(* A model of the screen-scraping chat exporter: qq.py (the scan run:      *)
(* window lookup, frame capture, region detection, copy via the clipboard, *)
(* per-pass deduplication, the JSON record store, the scroll loop) and     *)
(* fuck_down_test.py (the calibration tool's zone-parameterised safety     *)
(* check).                                                                 *)
(*                                                                         *)
(* Python values are represented as follows.                              *)
(*   None / an empty list      the empty sequence << >>                    *)
(*   a point (x, y)            << x, y >>                                  *)
(*   an area [x1, y1, x2, y2]  << x1, y1, x2, y2 >>                        *)
(*   an RGB pixel              << r, g, b >>                               *)
(*   a message dict            [text |-> ..., type |-> ...]                *)
(*   the clipboard             << >> (no text payload) or << text >>       *)
(*   the store file            [kind |-> "missing" | "corrupt" | "object"  *)
(*                              | "array", data |-> the array's elements]  *)
(***************************************************************************)
EXTENDS Integers, Sequences, FiniteSets, TLC

VARIABLES
    pc,                     \* position of the run: main, loop, areas, done, nowindow, crashed
    window,                 \* environment: whether a top-level window titled "QQ" exists
    foreground,             \* whether SetForegroundWindow has been called
    avoid_area,             \* the exclusion zone: four points tl, tr, bl, br
    screen,                 \* environment: what the chat window shows (frame and copy results)
    stuck,                  \* environment: the scroll command no longer moves the viewport
    screenshot,             \* process_visible_messages: the captured frame
    message_areas,          \* process_visible_messages: the detected regions
    idx,                    \* process_visible_messages: position of the for loop (1-based)
    processed_messages,     \* process_visible_messages: this pass's working list
    no_new_message_count,   \* scroll_chat_window: the idle-count
    total_processed,        \* scroll_chat_window
    last_message_area,      \* scroll_chat_window: the anchor
    store,                  \* the file training_data.json
    clipboard,              \* the system clipboard
    pointer,                \* the mouse pointer position
    clicks,                 \* history: the points that received a simulated click
    scrolls,                \* history: number of scroll commands issued
    extracted,              \* history: the message dicts copy_message returned in this pass
    pass_counts,            \* history: processed_count of every completed pass, in order
    pass_base,              \* history: the store's array when the current pass began
    initial_store,          \* history: the store file when the run began
    stuck_at,               \* history: number of completed passes when the viewport stuck
    probe,                  \* safety-check harness: the point being classified
    verdict,                \* safety-check harness: the answers of the two is_click_safe
    chords,                 \* history: points at which ctrl+a, ctrl+c were issued
    pass_store,             \* history: the store file when the current pass began
    zone_file,              \* the file avoid_area.json: None when absent, else its points
    recorded,               \* record_avoid_area: the local list avoid_area
    button,                 \* environment: whether the right mouse button is down
    presses,                \* history: where the operator pressed the right button
    messages,               \* process_and_write_streaming: the argument messages
    max_rows_per_sheet,     \* QCEJsonToExcelConverter.max_rows_per_sheet
    msg_idx,                \* number of messages the for loop has handled
    current_sheet_rows,     \* rows collected for the sheet being filled
    current_sheet_idx,      \* index of the sheet being filled
    sheets_written,         \* count of _write_single_sheet calls
    total_converted,        \* process_and_write_streaming's local total_processed
    total_failed,           \* count of messages that gave no row
    written,                \* the writer: the sheets written, each [name, rows]
    result                  \* the returned pair, None until the function returns

vars == << pc, window, foreground, avoid_area, screen, stuck, screenshot,
           message_areas, idx, processed_messages, no_new_message_count,
           total_processed, last_message_area, store, clipboard, pointer,
           clicks, scrolls, extracted, pass_counts, pass_base, initial_store,
           stuck_at, probe, verdict , chords, pass_store, zone_file,
           recorded, button, presses, messages, max_rows_per_sheet,
           msg_idx, current_sheet_rows, current_sheet_idx, sheets_written,
           total_converted, total_failed, written, result >>

\* the calibration tool's list, its file, the mouse button and its history
calib == << zone_file, recorded, button, presses >>

\* the state of the JSON-to-Excel converter
excel == << messages, max_rows_per_sheet, msg_idx, current_sheet_rows,
            current_sheet_idx, sheets_written, total_converted, total_failed,
            written, result >>

\* the converter not running
ExcelIdle ==
    /\ messages = << >>
    /\ max_rows_per_sheet = 1
    /\ msg_idx = 0
    /\ current_sheet_rows = << >>
    /\ current_sheet_idx = 0
    /\ sheets_written = 0
    /\ total_converted = 0
    /\ total_failed = 0
    /\ written = << >>
    /\ result = << >>

----------------------------------------------------------------------------
(* Bounds of the model *)

\* passes one run may start
MaxPasses == 14

\* passes that may show a new frame before the viewport stops moving
MaxFreePasses == 2

\* rows of a frame handed to the region detector on its own
DetectHeight == 5

\* columns of a frame
FrameWidth == 2

----------------------------------------------------------------------------
(* Program constants: qq.py lines 20-30, 184, 201-206 *)

my_message_color == << 0, 153, 255 >>

other_message_color == << 241, 252, 247 >>

\* the loop bound of scroll_chat_window
IdleLimit == 10

\* the gap of find_message_areas
MergeGap == 5

\* the offset of the click point from the area's corner
ClickOffset == 5

None == << >>

\* colours that are not message colours: white, and one channel off the Self colour
Background == << 255, 255, 255 >>

NearSelf == << 0, 153, 254 >>

Max(a, b) == IF a >= b THEN a ELSE b

----------------------------------------------------------------------------
(* Frames: a grid of pixels, rows top to bottom *)

MkFrame(rows) ==
    [width |-> Len(rows[1]), height |-> Len(rows), rows |-> rows]

\* pixels[x, y] / screenshot.getpixel((x, y)), 0-based
getpixel(frame, x, y) == frame.rows[y + 1][x + 1]

\* pixel[:3]
RGB(pixel) == SubSeq(pixel, 1, 3)

----------------------------------------------------------------------------
(* find_message_areas *)

\* mutant: compares only the red and green channels
IsMessageColorTwoChannels(pixel) ==
    \E c \in {my_message_color, other_message_color} :
        pixel[1] = c[1] /\ pixel[2] = c[2]

\* pixels[x, y][:3] in (my_message_color, other_message_color)
IsMessageColor(pixel) ==
    RGB(pixel) \in {my_message_color, other_message_color}

\* the x at which the inner loop breaks, or -1 when it runs to the end
FirstMatch(frame, y) ==
    LET hits == {x \in 0..(frame.width - 1) : IsMessageColor(getpixel(frame, x, y))}
    IN  IF hits = {} THEN -1
        ELSE CHOOSE x \in hits : \A x2 \in hits : x <= x2

\* mutant: a row without a matching pixel leaves the open region open
ScanRowNoClose(frame, y, st) ==
    LET x == FirstMatch(frame, y)
        cur == st.cur
    IN  IF x >= 0
        THEN IF cur = None \/ y - cur[4] > MergeGap
             THEN [areas |-> IF cur # None THEN Append(st.areas, cur) ELSE st.areas,
                   cur   |-> << x, y, x, y >>]
             ELSE [areas |-> st.areas,
                   cur   |-> << cur[1], cur[2], Max(cur[3], x), y >>]
        ELSE st

\* one iteration of the outer loop; st = [areas, cur]
ScanRow(frame, y, st) ==
    LET x == FirstMatch(frame, y)
        cur == st.cur
    IN  IF x >= 0
        THEN IF cur = None \/ y - cur[4] > MergeGap
             THEN [areas |-> IF cur # None THEN Append(st.areas, cur) ELSE st.areas,
                   cur   |-> << x, y, x, y >>]
             ELSE [areas |-> st.areas,
                   cur   |-> << cur[1], cur[2], Max(cur[3], x), y >>]
        ELSE IF cur # None
             THEN [areas |-> Append(st.areas, cur), cur |-> None]
             ELSE st

RECURSIVE ScanRows(_, _, _)
ScanRows(frame, y, st) ==
    IF y >= frame.height THEN st
    ELSE ScanRows(frame, y + 1, ScanRow(frame, y, st))

find_message_areas(frame) ==
    LET st == ScanRows(frame, 0, [areas |-> << >>, cur |-> None])
    IN  IF st.cur # None THEN Append(st.areas, st.cur) ELSE st.areas

----------------------------------------------------------------------------
(* is_click_safe, qq.py and fuck_down_test.py *)

\* mutant: the bounds taken as exclusive
is_click_safe_in_strict(click_position, zone) ==
    LET ax1 == zone[1][1]
        ay1 == zone[1][2]
        ax2 == zone[4][1]
        ay2 == zone[4][2]
        px  == click_position[1]
        py  == click_position[2]
    IN  ~(ax1 < px /\ px < ax2 /\ ay1 < py /\ py < ay2)

\* qq.py is_click_safe, with the module-level avoid_area passed in
is_click_safe_in(click_position, zone) ==
    LET ax1 == zone[1][1]
        ay1 == zone[1][2]
        ax2 == zone[4][1]
        ay2 == zone[4][2]
        px  == click_position[1]
        py  == click_position[2]
    IN  ~(ax1 <= px /\ px <= ax2 /\ ay1 <= py /\ py <= ay2)

\* mutant: the zone read from avoid_area.json
is_click_safe_from_file(click_position) ==
    is_click_safe_in(click_position, zone_file)

is_click_safe(click_position) == is_click_safe_in(click_position, avoid_area)

\* fuck_down_test.py is_click_safe(click_position, avoid_area):
\* (ax1, ay1), (_, ay2), (ax3, _), (_, _) = avoid_area
tool_is_click_safe(click_position, zone) ==
    IF zone # None
    THEN LET ax1 == zone[1][1]
             ay1 == zone[1][2]
             ay2 == zone[2][2]
             ax3 == zone[3][1]
             px  == click_position[1]
             py  == click_position[2]
         IN  ~(ax1 <= px /\ px <= ax3 /\ ay1 <= py /\ py <= ay2)
    ELSE TRUE

----------------------------------------------------------------------------
(* copy_message: the result of the interaction for one area.               *)
(* outcome is what the chat window does with click, ctrl+a, ctrl+c:        *)
(*   text       the copy puts outcome.text on the clipboard                *)
(*   unchanged  the copy leaves the clipboard as it was                    *)
(*   notext     the copy puts a payload without text on the clipboard      *)
(*   fail       OpenClipboard raises (the clipboard is held elsewhere)     *)

Text(t) == [kind |-> "text", text |-> t]

Unchanged == [kind |-> "unchanged", text |-> ""]

NoText == [kind |-> "notext", text |-> ""]

Fail == [kind |-> "fail", text |-> ""]

Sentinel == [text |-> "", type |-> ""]

ClickPoint(area) == << area[1] + ClickOffset, area[2] + ClickOffset >>

\* mutant: the two role names exchanged
MessageTypeSwapped(message_color) ==
    IF message_color = my_message_color THEN "other_message" ELSE "my_message"

\* message_type = "my_message" if message_color == my_message_color else "other_message"
MessageType(message_color) ==
    IF message_color = my_message_color THEN "my_message" ELSE "other_message"

\* the clipboard after ctrl+c
AfterCopy(outcome, clip) ==
    CASE outcome.kind = "text"   -> << outcome.text >>
      [] outcome.kind = "notext" -> << >>
      [] OTHER                   -> clip

\* GetClipboardData(CF_UNICODETEXT), "" on TypeError
ReadClipboard(clip) == IF clip = << >> THEN "" ELSE clip[1]

\* mutant: the guard dropped, the click always issued
copy_message_unguarded(area, message_color, outcome, clip) ==
    LET clip2 == AfterCopy(outcome, clip)
    IN  [clicked   |-> TRUE,
         chords    |-> TRUE,
         raised    |-> FALSE,
         clipboard |-> clip2,
         message   |-> IF outcome.kind = "fail" THEN Sentinel
                       ELSE [text |-> ReadClipboard(clip2),
                             type |-> MessageType(message_color)]]

\* mutant: no try/except around the interaction
copy_message_uncaught(area, message_color, outcome, clip) ==
    IF is_click_safe(ClickPoint(area))
    THEN LET clip2 == AfterCopy(outcome, clip)
         IN  [clicked   |-> TRUE,
              chords    |-> TRUE,
              raised    |-> outcome.kind = "fail",
              clipboard |-> clip2,
              message   |-> IF outcome.kind = "fail" THEN Sentinel
                            ELSE [text |-> ReadClipboard(clip2),
                                  type |-> MessageType(message_color)]]
    ELSE [clicked |-> FALSE, chords |-> FALSE, raised |-> FALSE,
          clipboard |-> clip, message |-> Sentinel]

\* clicked: pyautogui.click was issued; chords: both hotkey calls were issued;
\* raised: an exception leaves copy_message (none does: except Exception)
copy_message(area, message_color, outcome, clip) ==
    IF is_click_safe(ClickPoint(area))
    THEN LET clip2 == AfterCopy(outcome, clip)
         IN  [clicked   |-> TRUE,
              chords    |-> TRUE,
              raised    |-> FALSE,
              clipboard |-> clip2,
              message   |-> IF outcome.kind = "fail" THEN Sentinel
                            ELSE [text |-> ReadClipboard(clip2),
                                  type |-> MessageType(message_color)]]
    ELSE [clicked |-> FALSE, chords |-> FALSE, raised |-> FALSE,
          clipboard |-> clip, message |-> Sentinel]

\* mutant: the role pixel read at the click point when the frame holds it
RolePixelInterior(frame, area) ==
    IF area[1] + ClickOffset < frame.width /\ area[2] + ClickOffset < frame.height
    THEN getpixel(frame, area[1] + ClickOffset, area[2] + ClickOffset)
    ELSE getpixel(frame, area[1], area[2])

\* x, y, _, _ = area; pixel_color = screenshot.getpixel((x, y))
RolePixel(frame, area) == getpixel(frame, area[1], area[2])

----------------------------------------------------------------------------
(* save_to_json *)

\* data after the load step; the file's own value when it decodes
LoadStore(file) ==
    CASE file.kind = "missing" -> << >>
      [] file.kind = "corrupt" -> << >>
      [] OTHER                 -> file.data

\* mutant: no except clause around json.load
SaveRaisesOnCorrupt(file) == file.kind \in {"object", "corrupt"}

\* data.append raises when the decoded value is not a list
SaveRaises(file) == file.kind = "object"

\* mutant: the file rewritten with the new record alone
save_to_json_overwrite(message_data, file) ==
    [kind |-> "array", data |-> << message_data >>]

\* the file after a save_to_json call that returns
save_to_json(message_data, file) ==
    [kind |-> "array", data |-> Append(LoadStore(file), message_data)]

\* mutant: the test for empty text dropped
IsNewAllowEmpty(message_data, processed) ==
    \A i \in 1..Len(processed) : processed[i] # message_data

\* mutant: duplicates recognised by their text alone
IsNewByText(message_data, processed) ==
    /\ message_data.text # ""
    /\ \A i \in 1..Len(processed) : processed[i].text # message_data.text

\* message_data["text"] and message_data not in processed_messages
IsNew(message_data, processed) ==
    /\ message_data.text # ""
    /\ \A i \in 1..Len(processed) : processed[i] # message_data

----------------------------------------------------------------------------
(* The environment of a scan run *)

RowAt(c, x) == [i \in 1..FrameWidth |-> IF i = x + 1 THEN c ELSE Background]

RowBlank == [i \in 1..FrameWidth |-> Background]

FrameBlank == MkFrame(<< RowBlank, RowBlank, RowBlank, RowBlank >>)

FrameOneSelf ==
    MkFrame(<< RowAt(my_message_color, 0), RowAt(my_message_color, 0),
               RowBlank, RowBlank >>)

FrameSelfOther ==
    MkFrame(<< RowAt(my_message_color, 0), RowBlank,
               RowAt(other_message_color, 1), RowBlank >>)

FrameSelfSelf ==
    MkFrame(<< RowAt(my_message_color, 1), RowBlank,
               RowAt(my_message_color, 0), RowAt(my_message_color, 0) >>)

FirstOutcomes == {Text("hi"), NoText, Fail}

SecondOutcomes == {Text("hi"), Text("bye"), Unchanged}

Screens ==
    {[frame |-> FrameBlank, ui |-> << >>]}
    \cup {[frame |-> FrameOneSelf, ui |-> << o >>] : o \in FirstOutcomes}
    \cup {[frame |-> f, ui |-> << o1, o2 >>] :
            f \in {FrameSelfOther, FrameSelfSelf},
            o1 \in FirstOutcomes, o2 \in SecondOutcomes}

Rect(x1, y1, x2, y2) == << << x1, y1 >>, << x2, y1 >>, << x1, y2 >>, << x2, y2 >> >>

\* a zone over the click points of the lower areas, a one-point zone, a zone
\* with the skew of the calibrated literal, far from every click point
ScanZones ==
    { Rect(5, 7, 6, 8),
      Rect(5, 5, 5, 5),
      << << 20, 20 >>, << 30, 20 >>, << 21, 29 >>, << 30, 30 >> >> }

Hi == [text |-> "hi", type |-> "my_message"]

InitialStores ==
    { [kind |-> "missing", data |-> << >>],
      [kind |-> "corrupt", data |-> << >>],
      [kind |-> "object",  data |-> << >>],
      [kind |-> "array",   data |-> << Hi >>] }

InitialClipboards == { << >>, << "old" >> }

\* avoid_area.json as an earlier record_avoid_area left it
CalibratedZone == Rect(5, 5, 6, 8)

----------------------------------------------------------------------------
(* The scan run *)

Init ==
    /\ ExcelIdle
    /\ pc = "main"
    /\ window \in BOOLEAN
    /\ foreground = FALSE
    /\ avoid_area \in ScanZones
    /\ screen = [frame |-> FrameBlank, ui |-> << >>]
    /\ stuck = FALSE
    /\ screenshot = FrameBlank
    /\ message_areas = << >>
    /\ idx = 1
    /\ processed_messages = << >>
    /\ no_new_message_count = 0
    /\ total_processed = 0
    /\ last_message_area = None
    /\ store \in InitialStores
    /\ clipboard \in InitialClipboards
    /\ pointer = << 0, 0 >>
    /\ clicks = {}
    /\ scrolls = 0
    /\ extracted = << >>
    /\ pass_counts = << >>
    /\ pass_base = << >>
    /\ initial_store = store
    /\ stuck_at = 0
    /\ probe = << 0, 0 >>
    /\ verdict = << >>
    /\ chords = {}
    /\ pass_store = store
    /\ zone_file = CalibratedZone
    /\ recorded = << >>
    /\ button = FALSE
    /\ presses = << >>

\* mutant: the loop test off by one
LoopContinuesInclusive(count) == count <= IdleLimit

\* while no_new_message_count < 10
LoopContinues(count) == count < IdleLimit

\* mutant: the idle-count never reset
NextIdleCountNeverReset(count, processed_count) == count + 1

\* the if/else on processed_count in the while body
NextIdleCount(count, processed_count) ==
    IF processed_count = 0 THEN count + 1 ELSE 0

\* mutant: the anchor forgotten after a pass without regions
NextAnchorCleared(last_area, anchor) == last_area

\* if last_area: last_message_area = last_area
NextAnchor(last_area, anchor) ==
    IF last_area # None THEN last_area ELSE anchor

\* mutant: the scroll command left out
scroll_skipped(count) == count

\* pyautogui.scroll(-450), counted
scroll(count) == count + 1

\* mutant: the scan entered whether or not the window was found
MainIgnoresWindow ==
    /\ pc = "main"
    /\ foreground' = TRUE
    /\ pc' = "loop"
    /\ UNCHANGED << window, avoid_area, screen, stuck, screenshot, message_areas,
                    idx, processed_messages, no_new_message_count,
                    total_processed, last_message_area, store, clipboard,
                    pointer, clicks, scrolls, extracted, pass_counts, pass_base,
                    initial_store, stuck_at, probe, verdict, chords, pass_store,
                    calib, excel >>

\* main: get_qq_window_position, SetForegroundWindow, entry to scroll_chat_window
Main ==
    /\ pc = "main"
    /\ IF window
       THEN /\ foreground' = TRUE
            /\ pc' = "loop"
       ELSE /\ foreground' = foreground
            /\ pc' = "nowindow"
    /\ UNCHANGED << window, avoid_area, screen, stuck, screenshot, message_areas,
                    idx, processed_messages, no_new_message_count,
                    total_processed, last_message_area, store, clipboard,
                    pointer, clicks, scrolls, extracted, pass_counts, pass_base,
                    initial_store, stuck_at, probe, verdict, chords, pass_store,
                    calib, excel >>

\* environment: from now on the scroll command leaves the viewport where it is
ViewportSticks ==
    /\ pc = "loop"
    /\ ~stuck
    /\ Len(pass_counts) >= 1
    /\ stuck' = TRUE
    /\ stuck_at' = Len(pass_counts)
    /\ UNCHANGED << pc, window, foreground, avoid_area, screen, screenshot,
                    message_areas, idx, processed_messages, no_new_message_count,
                    total_processed, last_message_area, store, clipboard,
                    pointer, clicks, scrolls, extracted, pass_counts, pass_base,
                    initial_store, probe, verdict, chords, pass_store,
                    calib, excel >>

\* the while test true; capture_screen and find_message_areas
StartPass ==
    /\ pc = "loop"
    /\ LoopContinues(no_new_message_count)
    /\ Len(pass_counts) < MaxPasses
    /\ ~stuck => Len(pass_counts) < MaxFreePasses
    /\ \E s \in (IF stuck THEN {screen} ELSE Screens) :
         /\ screen' = s
         /\ screenshot' = s.frame
         /\ message_areas' = find_message_areas(s.frame)
    /\ processed_messages' = << >>
    /\ idx' = 1
    /\ extracted' = << >>
    /\ pass_base' = LoadStore(store)
    /\ pass_store' = store
    /\ pc' = "areas"
    /\ UNCHANGED << window, foreground, avoid_area, stuck, no_new_message_count,
                    total_processed, last_message_area, store, clipboard,
                    pointer, clicks, scrolls, pass_counts, initial_store,
                    stuck_at, probe, verdict, chords, calib, excel >>

\* one iteration of the for loop of process_visible_messages
ProcessArea ==
    /\ pc = "areas"
    /\ idx <= Len(message_areas)
    /\ LET area == message_areas[idx]
           pixel_color == RolePixel(screenshot, area)
           r == copy_message(area, RGB(pixel_color), screen.ui[idx], clipboard)
           message_data == r.message
       IN  /\ clipboard' = r.clipboard
           /\ clicks' = IF r.clicked THEN clicks \cup {ClickPoint(area)} ELSE clicks
           /\ pointer' = IF r.clicked THEN ClickPoint(area) ELSE pointer
           /\ chords' = IF r.chords THEN chords \cup {ClickPoint(area)} ELSE chords
           /\ IF r.raised
              THEN /\ pc' = "crashed"
                   /\ UNCHANGED << store, processed_messages, idx, extracted >>
              ELSE /\ extracted' = Append(extracted, message_data)
                   /\ IF IsNew(message_data, processed_messages)
                      THEN IF SaveRaises(store)
                           THEN /\ pc' = "crashed"
                                /\ UNCHANGED << store, processed_messages, idx >>
                           ELSE /\ store' = save_to_json(message_data, store)
                                /\ processed_messages' =
                                     Append(processed_messages, message_data)
                                /\ idx' = idx + 1
                                /\ pc' = pc
                      ELSE /\ idx' = idx + 1
                           /\ UNCHANGED << pc, store, processed_messages >>
    /\ UNCHANGED << window, foreground, avoid_area, screen, stuck, screenshot,
                    message_areas, no_new_message_count, total_processed,
                    last_message_area, scrolls, pass_counts, pass_base,
                    initial_store, stuck_at, probe, verdict, pass_store, calib, excel >>

\* return of process_visible_messages and the rest of the while body
EndPass ==
    /\ pc = "areas"
    /\ idx > Len(message_areas)
    /\ LET processed_count == Len(processed_messages)
           last_area == IF message_areas # << >>
                        THEN message_areas[Len(message_areas)] ELSE None
           anchor == NextAnchor(last_area, last_message_area)
       IN  /\ total_processed' = total_processed + processed_count
           /\ no_new_message_count' =
                NextIdleCount(no_new_message_count, processed_count)
           /\ last_message_area' = anchor
           /\ pointer' = IF anchor # None
                         THEN << screenshot.width \div 2, screenshot.height \div 4 >>
                         ELSE << screenshot.width \div 2, screenshot.height \div 2 >>
           /\ pass_counts' = Append(pass_counts, processed_count)
    /\ scrolls' = scroll(scrolls)
    /\ pc' = "loop"
    /\ UNCHANGED << window, foreground, avoid_area, screen, stuck, screenshot,
                    message_areas, idx, processed_messages, store, clipboard,
                    clicks, extracted, pass_base, initial_store, stuck_at,
                    probe, verdict, chords, pass_store,
                    calib, excel >>

\* the while test false
Exit ==
    /\ pc = "loop"
    /\ ~LoopContinues(no_new_message_count)
    /\ pc' = "done"
    /\ UNCHANGED << window, foreground, avoid_area, screen, stuck, screenshot,
                    message_areas, idx, processed_messages, no_new_message_count,
                    total_processed, last_message_area, store, clipboard,
                    pointer, clicks, scrolls, extracted, pass_counts, pass_base,
                    initial_store, stuck_at, probe, verdict, chords, pass_store,
                    calib, excel >>

Next == Main \/ ViewportSticks \/ StartPass \/ ProcessArea \/ EndPass \/ Exit

Spec == Init /\ [][Next]_vars

----------------------------------------------------------------------------
(* The safety checks on their own: one point classified against one zone   *)
(* by qq.py's is_click_safe and by fuck_down_test.py's is_click_safe.      *)

GuardXs == {5, 10, 20, 50}

GuardYs == {5, 10, 20, 30}

GuardPoints == {<< x, y >> : x \in GuardXs, y \in GuardYs}

\* every choice of a first and a fourth corner, the inverted ones included,
\* the calibrated literal's skew, and no zone (load_avoid_area's None)
GuardZones ==
    {Rect(x1, y1, x2, y2) : x1 \in GuardXs, x2 \in GuardXs,
                            y1 \in GuardYs, y2 \in GuardYs}
    \cup {<< << 10, 10 >>, << 50, 10 >>, << 20, 20 >>, << 50, 30 >> >>}
    \cup {None}

Idle ==
    /\ window = FALSE
    /\ foreground = FALSE
    /\ screen = [frame |-> FrameBlank, ui |-> << >>]
    /\ stuck = FALSE
    /\ idx = 1
    /\ processed_messages = << >>
    /\ no_new_message_count = 0
    /\ total_processed = 0
    /\ last_message_area = None
    /\ store = [kind |-> "missing", data |-> << >>]
    /\ clipboard = << >>
    /\ pointer = << 0, 0 >>
    /\ clicks = {}
    /\ scrolls = 0
    /\ extracted = << >>
    /\ pass_counts = << >>
    /\ pass_base = << >>
    /\ initial_store = store
    /\ stuck_at = 0
    /\ chords = {}
    /\ pass_store = store
    /\ recorded = << >>
    /\ button = FALSE
    /\ presses = << >>

InitGuard ==
    /\ ExcelIdle
    /\ Idle
    /\ zone_file = None
    /\ pc = "guard"
    /\ avoid_area \in GuardZones
    /\ screenshot = FrameBlank
    /\ message_areas = << >>
    /\ probe \in GuardPoints
    /\ verdict = [scan |-> "none", tool |-> "none"]

Answer(safe) == IF safe THEN "safe" ELSE "unsafe"

\* qq.py is_click_safe(probe); the module's avoid_area is always four points
GuardScan ==
    /\ pc = "guard"
    /\ avoid_area # None
    /\ verdict.scan = "none"
    /\ verdict' = [verdict EXCEPT !.scan = Answer(is_click_safe(probe))]
    /\ UNCHANGED << pc, window, foreground, avoid_area, screen, stuck, screenshot,
                    message_areas, idx, processed_messages, no_new_message_count,
                    total_processed, last_message_area, store, clipboard,
                    pointer, clicks, scrolls, extracted, pass_counts, pass_base,
                    initial_store, stuck_at, probe, chords, pass_store, calib, excel >>

\* fuck_down_test.py is_click_safe(probe, avoid_area)
GuardTool ==
    /\ pc = "guard"
    /\ verdict.tool = "none"
    /\ verdict' = [verdict EXCEPT !.tool = Answer(tool_is_click_safe(probe, avoid_area))]
    /\ UNCHANGED << pc, window, foreground, avoid_area, screen, stuck, screenshot,
                    message_areas, idx, processed_messages, no_new_message_count,
                    total_processed, last_message_area, store, clipboard,
                    pointer, clicks, scrolls, extracted, pass_counts, pass_base,
                    initial_store, stuck_at, probe, chords, pass_store, calib, excel >>

NextGuard == GuardScan \/ GuardTool

SpecGuard == InitGuard /\ [][NextGuard]_vars

----------------------------------------------------------------------------
(* The calibration tool: record_avoid_area samples the pointer while the   *)
(* right button is down, writes four points to avoid_area.json, and the    *)
(* recorded zone is then put before the two safety checks.                 *)

\* while len(avoid_area) < 4
CornerCount == 4

\* where the operator may right-click
CalibPoints == {<< 10, 10 >>, << 50, 10 >>, << 10, 30 >>, << 50, 30 >>}

CalibProbes == {<< 20, 20 >>, << 5, 5 >>}

InitCalib ==
    /\ ExcelIdle
    /\ Idle
    /\ pc = "record"
    /\ avoid_area = Rect(5, 5, 5, 5)
    /\ zone_file = None
    /\ screenshot = FrameBlank
    /\ message_areas = << >>
    /\ probe \in CalibProbes
    /\ verdict = [scan |-> "none", tool |-> "none"]

\* the number of right-button presses the operator makes at most
MaxPresses == 4

\* environment: the operator moves to a point and presses the right button
OperatorPress ==
    /\ pc \in {"record", "sleep"}
    /\ ~button
    /\ Len(presses) < MaxPresses
    /\ \E p \in CalibPoints :
         /\ pointer' = p
         /\ presses' = Append(presses, p)
    /\ button' = TRUE
    /\ UNCHANGED << pc, window, foreground, avoid_area, screen, stuck, screenshot,
                    message_areas, idx, processed_messages, no_new_message_count,
                    total_processed, last_message_area, store, clipboard,
                    clicks, scrolls, extracted, pass_counts, pass_base,
                    initial_store, stuck_at, probe, verdict, chords, pass_store,
                    zone_file, recorded, excel >>

\* environment: the operator lets the right button go; the polling loop is
\* far quicker than a hand, so a press made while the tool polls is sampled
\* before it can be released
OperatorRelease ==
    /\ pc = "sleep"
    /\ button
    /\ button' = FALSE
    /\ UNCHANGED << pc, window, foreground, avoid_area, screen, stuck, screenshot,
                    message_areas, idx, processed_messages, no_new_message_count,
                    total_processed, last_message_area, store, clipboard,
                    pointer, clicks, scrolls, extracted, pass_counts, pass_base,
                    initial_store, stuck_at, probe, verdict, chords, pass_store,
                    zone_file, recorded, presses, excel >>

\* an iteration of the while loop that finds the button down: the position
\* is appended and time.sleep(1) begins
RecordPoint ==
    /\ pc = "record"
    /\ Len(recorded) < CornerCount
    /\ button
    /\ recorded' = Append(recorded, pointer)
    /\ pc' = "sleep"
    /\ UNCHANGED << window, foreground, avoid_area, screen, stuck, screenshot,
                    message_areas, idx, processed_messages, no_new_message_count,
                    total_processed, last_message_area, store, clipboard,
                    pointer, clicks, scrolls, extracted, pass_counts, pass_base,
                    initial_store, stuck_at, probe, verdict, chords, pass_store,
                    zone_file, button, presses, excel >>

\* time.sleep(1) returns
WakeUp ==
    /\ pc = "sleep"
    /\ pc' = "record"
    /\ UNCHANGED << window, foreground, avoid_area, screen, stuck, screenshot,
                    message_areas, idx, processed_messages, no_new_message_count,
                    total_processed, last_message_area, store, clipboard,
                    pointer, clicks, scrolls, extracted, pass_counts, pass_base,
                    initial_store, stuck_at, probe, verdict, chords, pass_store,
                    calib, excel >>

\* the while test false: json.dump(avoid_area, f) and return
PersistZone ==
    /\ pc = "record"
    /\ Len(recorded) >= CornerCount
    /\ zone_file' = recorded
    /\ pc' = "recorded"
    /\ UNCHANGED << window, foreground, avoid_area, screen, stuck, screenshot,
                    message_areas, idx, processed_messages, no_new_message_count,
                    total_processed, last_message_area, store, clipboard,
                    pointer, clicks, scrolls, extracted, pass_counts, pass_base,
                    initial_store, stuck_at, probe, verdict, chords, pass_store,
                    recorded, button, presses, excel >>

\* load_avoid_area, and the operator overwriting qq.py's literal with the
\* recorded points: the zone both safety checks are then given
LoadZone ==
    /\ pc = "recorded"
    /\ avoid_area' = zone_file
    /\ pc' = "guard"
    /\ UNCHANGED << window, foreground, screen, stuck, screenshot,
                    message_areas, idx, processed_messages, no_new_message_count,
                    total_processed, last_message_area, store, clipboard,
                    pointer, clicks, scrolls, extracted, pass_counts, pass_base,
                    initial_store, stuck_at, probe, verdict, chords, pass_store,
                    calib, excel >>

NextCalib ==
    \/ OperatorPress \/ OperatorRelease \/ RecordPoint \/ WakeUp \/ PersistZone
    \/ LoadZone \/ GuardScan \/ GuardTool

SpecCalib == InitCalib /\ [][NextCalib]_vars

----------------------------------------------------------------------------
(* The region detector on its own: find_message_areas applied to one frame *)

DetectRows ==
    {RowBlank, RowAt(NearSelf, 0)}
    \cup {RowAt(c, x) : c \in {my_message_color, other_message_color},
                        x \in {0, FrameWidth - 1}}

DetectFrames == {MkFrame(rows) : rows \in [1..DetectHeight -> DetectRows]}

InitDetect ==
    /\ ExcelIdle
    /\ Idle
    /\ zone_file = None
    /\ pc = "detect"
    /\ avoid_area = Rect(5, 5, 5, 5)
    /\ screenshot \in DetectFrames
    /\ message_areas = << >>
    /\ probe = << 0, 0 >>
    /\ verdict = << >>

Detect ==
    /\ pc = "detect"
    /\ message_areas' = find_message_areas(screenshot)
    /\ pc' = "detected"
    /\ UNCHANGED << window, foreground, avoid_area, screen, stuck, screenshot,
                    idx, processed_messages, no_new_message_count,
                    total_processed, last_message_area, store, clipboard,
                    pointer, clicks, scrolls, extracted, pass_counts, pass_base,
                    initial_store, stuck_at, probe, verdict, chords, pass_store,
                    calib, excel >>

\* what the interaction answers in this harness: the copy always succeeds
StubOutcome == Text("stub")

\* the body of the for loop of process_visible_messages up to the copy_message
\* call, applied to every detected region
Classify ==
    /\ pc = "detected"
    /\ extracted' =
         [i \in 1..Len(message_areas) |->
            LET area == message_areas[i]
                pixel_color == RolePixel(screenshot, area)
            IN  copy_message(area, RGB(pixel_color), StubOutcome, clipboard).message]
    /\ pc' = "classified"
    /\ UNCHANGED << window, foreground, avoid_area, screen, stuck, screenshot,
                    message_areas, idx, processed_messages, no_new_message_count,
                    total_processed, last_message_area, store, clipboard,
                    pointer, clicks, scrolls, pass_counts, pass_base,
                    initial_store, stuck_at, probe, verdict, chords, pass_store,
                    calib, excel >>

NextDetect == Detect \/ Classify

SpecDetect == InitDetect /\ [][NextDetect]_vars

----------------------------------------------------------------------------
(* Detection and extraction on frames wide and high enough to hold the     *)
(* click point of a region that starts at the frame's top-left pixel.      *)

RoleSide == ClickOffset + 1

\* a row of RoleSide pixels, background but for colour c at column x
RoleRowAt(c, x) == [i \in 1..RoleSide |-> IF i = x + 1 THEN c ELSE Background]

RoleRows ==
    {[i \in 1..RoleSide |-> Background]}
    \cup {RoleRowAt(c, x) : c \in {my_message_color, other_message_color},
                            x \in {0, ClickOffset}}

RoleFrames == {MkFrame(rows) : rows \in [1..RoleSide -> RoleRows]}

RoleZones == {Rect(5, 5, 5, 5), Rect(20, 20, 30, 30)}

InitRole ==
    /\ ExcelIdle
    /\ Idle
    /\ zone_file = None
    /\ pc = "detect"
    /\ avoid_area \in RoleZones
    /\ screenshot \in RoleFrames
    /\ message_areas = << >>
    /\ probe = << 0, 0 >>
    /\ verdict = << >>

SpecRole == InitRole /\ [][NextDetect]_vars

----------------------------------------------------------------------------
(* scripts/qce_json_to_excel.py: convert_message_to_row and                *)
(* process_and_write_streaming                                             *)

\* the longest message list and the largest max_rows_per_sheet tried
MaxMessages == 4

MaxRowsPerSheet == 3

(* What an element of the messages list can be:                            *)
(*   ok            an object whose sender, content, elements and resources *)
(*                 have the shapes the conversion reads                    *)
(*   bad_sender    an object whose sender is not an object                 *)
(*   bad_content   an object whose content is not an object                *)
(*   bad_elements  an object whose content.elements holds a non-object     *)
(*   not_object    a value without a get method (null, a string, a list)   *)
Shapes == {"ok", "bad_sender", "bad_content", "bad_elements", "not_object"}

\* the message lists of length n, the i-th message carrying the id i
MessageLists(n) ==
    {[i \in 1..n |-> [id |-> i, shape |-> f[i]]] : f \in [1..n -> Shapes]}

\* the outcome of a call: a row, None, or an exception leaving the call.
\* The first message.get of the try block raises AttributeError on a value
\* that is not an object; the handler calls message.get again and that
\* exception is not caught. On an object the failing .get is one on sender,
\* content or an element, the handler's message.get succeeds, None is returned.
convert_message_to_row(message) ==
    CASE message.shape = "ok" ->
           [kind |-> "row", row |-> [message_id |-> message.id]]
      [] message.shape = "not_object" ->
           [kind |-> "raise", row |-> None]
      [] OTHER ->
           [kind |-> "none", row |-> None]

\* (total_messages + max_rows_per_sheet - 1) // max_rows_per_sheet
NumSheets == (Len(messages) + max_rows_per_sheet - 1) \div max_rows_per_sheet

\* the f-string with the sheet number when num_sheets > 1, the bare name otherwise
SheetName(sheet_idx) ==
    IF NumSheets > 1 THEN << "messages-", sheet_idx + 1 >> ELSE << "messages" >>

\* writer after _write_single_sheet(writer, sheet_name, rows)
WriteSheet(rows) ==
    Append(written, [name |-> SheetName(current_sheet_idx), rows |-> rows])

InitExcel ==
    /\ Idle
    /\ zone_file = None
    /\ avoid_area = Rect(5, 5, 5, 5)
    /\ screenshot = FrameBlank
    /\ message_areas = << >>
    /\ probe = << 0, 0 >>
    /\ verdict = << >>
    /\ pc = "convert"
    /\ \E n \in 0..MaxMessages : messages \in MessageLists(n)
    /\ max_rows_per_sheet \in 1..MaxRowsPerSheet
    /\ msg_idx = 0
    /\ current_sheet_rows = << >>
    /\ current_sheet_idx = 0
    /\ sheets_written = 0
    /\ total_converted = 0
    /\ total_failed = 0
    /\ written = << >>
    /\ result = None

\* one iteration of the for loop over messages
ConvertMessage ==
    /\ pc = "convert"
    /\ msg_idx < Len(messages)
    /\ LET r == convert_message_to_row(messages[msg_idx + 1])
           rows == IF r.kind = "row" THEN Append(current_sheet_rows, r.row)
                   ELSE current_sheet_rows
       IN  IF r.kind = "raise"
           THEN /\ pc' = "raised"
                /\ UNCHANGED excel
           ELSE /\ pc' = pc
                /\ msg_idx' = msg_idx + 1
                /\ total_converted' =
                     IF r.kind = "row" THEN total_converted + 1 ELSE total_converted
                /\ total_failed' =
                     IF r.kind = "row" THEN total_failed ELSE total_failed + 1
                /\ IF Len(rows) >= max_rows_per_sheet
                   THEN /\ written' = WriteSheet(rows)
                        /\ sheets_written' = sheets_written + 1
                        /\ current_sheet_idx' = current_sheet_idx + 1
                        /\ current_sheet_rows' = << >>
                   ELSE /\ current_sheet_rows' = rows
                        /\ UNCHANGED << written, sheets_written, current_sheet_idx >>
                /\ UNCHANGED << messages, max_rows_per_sheet, result >>
    /\ UNCHANGED << window, foreground, avoid_area, screen, stuck, screenshot,
                    message_areas, idx, processed_messages, no_new_message_count,
                    total_processed, last_message_area, store, clipboard,
                    pointer, clicks, scrolls, extracted, pass_counts, pass_base,
                    initial_store, stuck_at, probe, verdict, chords, pass_store,
                    calib >>

\* after the loop: the remaining rows are written and the pair is returned
ReturnCounts ==
    /\ pc = "convert"
    /\ msg_idx = Len(messages)
    /\ IF current_sheet_rows # << >>
       THEN /\ written' = WriteSheet(current_sheet_rows)
            /\ sheets_written' = sheets_written + 1
            /\ current_sheet_rows' = << >>
       ELSE UNCHANGED << written, sheets_written, current_sheet_rows >>
    /\ result' = << sheets_written', total_failed >>
    /\ pc' = "returned"
    /\ UNCHANGED << messages, max_rows_per_sheet, msg_idx, current_sheet_idx,
                    total_converted, total_failed >>
    /\ UNCHANGED << window, foreground, avoid_area, screen, stuck, screenshot,
                    message_areas, idx, processed_messages, no_new_message_count,
                    total_processed, last_message_area, store, clipboard,
                    pointer, clicks, scrolls, extracted, pass_counts, pass_base,
                    initial_store, stuck_at, probe, verdict, chords, pass_store,
                    calib >>

NextExcel == ConvertMessage \/ ReturnCounts

SpecExcel == InitExcel /\ [][NextExcel]_vars

----------------------------------------------------------------------------
(* Properties *)

\* the points of the inclusive rectangle spanned by a zone's first and fourth point
ZoneRect(zone) ==
    {<< x, y >> : x \in zone[1][1]..zone[4][1], y \in zone[1][2]..zone[4][2]}

Last(seq) == seq[Len(seq)]

\* a run of the scan that has not died in save_to_json
Running == pc \in {"loop", "areas", "done"}

\* C1: no simulated click is ever issued at a point inside the inclusive
\* rectangle of the exclusion zone, whatever the passes, frames and regions.
C1_NoClickInZone == \A p \in clicks : p \notin ZoneRect(avoid_area)

\* an area whose click point lies in the zone has been processed, and other
\* areas have been clicked
C1_Witness ==
    /\ clicks # {}
    /\ \E i \in 1..Len(message_areas) :
         i < idx /\ ClickPoint(message_areas[i]) \in ZoneRect(avoid_area)

\* C2: the scan's is_click_safe answers unsafe exactly for the points within
\* the inclusive rectangle spanned by the zone's first and fourth point, safe
\* for every other point, and the call changes nothing but its answer.
C2_ScanGuardIff ==
    /\ [](verdict.scan # "none" =>
            /\ verdict.scan \in {"safe", "unsafe"}
            /\ verdict.scan = "unsafe" <=> probe \in ZoneRect(avoid_area))
    /\ [][verdict'.scan # verdict.scan =>
            << avoid_area, probe, store, clipboard, pointer, clicks >>' =
            << avoid_area, probe, store, clipboard, pointer, clicks >>]_vars

\* a point on the zone's right and lower edge is answered unsafe
C2_Witness ==
    /\ verdict.scan = "unsafe"
    /\ probe = avoid_area[4]
    /\ avoid_area[1] # avoid_area[4]

\* C3: with the zone (10,10), (50,10), (10,30), (50,30) the calibration
\* tool's is_click_safe answers unsafe for (20,20) and safe for (5,5), and
\* with no zone it answers safe for every point.
C3_ToolGuardExamples ==
    verdict.tool # "none" =>
        /\ (avoid_area = Rect(10, 10, 50, 30) /\ probe = << 20, 20 >>)
              => verdict.tool = "unsafe"
        /\ (avoid_area = Rect(10, 10, 50, 30) /\ probe = << 5, 5 >>)
              => verdict.tool = "safe"
        /\ avoid_area = None => verdict.tool = "safe"

\* number of zero counts at the end of a sequence of pass counts
RECURSIVE TrailingZeros(_)
TrailingZeros(counts) ==
    IF counts = << >> \/ Last(counts) # 0 THEN 0
    ELSE 1 + TrailingZeros(SubSeq(counts, 1, Len(counts) - 1))

\* ten consecutive zero counts ending at position j
TenIdleEndingAt(counts, j) ==
    j >= 10 /\ \A i \in (j - 9)..j : counts[i] = 0

\* C4: the idle-count stays within 0..10 and is the number of consecutive
\* passes, up to now, that persisted nothing; scroll_chat_window is done
\* exactly when it is 10, right after the first ten consecutive idle passes;
\* below 10 the loop never exits and its next step starts another pass.
C4_IdleCountTermination ==
    /\ [](Running =>
            /\ no_new_message_count \in 0..10
            /\ pc = "loop" => no_new_message_count = TrailingZeros(pass_counts)
            /\ pc = "done" => no_new_message_count = 10
            /\ no_new_message_count = 10 => pc \in {"loop", "done"}
            /\ pc = "done" =>
                 /\ TenIdleEndingAt(pass_counts, Len(pass_counts))
                 /\ \A j \in 1..(Len(pass_counts) - 1) :
                        ~TenIdleEndingAt(pass_counts, j))
    /\ [][(pc = "loop" /\ no_new_message_count < 10 /\ stuck' = stuck)
            => (pc' = "areas" /\ pass_counts' = pass_counts)]_vars
    /\ [][(pc = "loop" /\ no_new_message_count = 10) => pc' = "done"]_vars

\* the loop has ended after a pass that persisted records and ten idle passes
C4_Witness ==
    /\ pc = "done"
    /\ pass_counts[1] > 0
    /\ Len(pass_counts) = 11

\* the run of C5: the first pass persists 2, every later pass persists 0
C5_Scenario ==
    /\ pc = "done"
    /\ Len(pass_counts) >= 1
    /\ pass_counts[1] = 2
    /\ \A i \in 2..Len(pass_counts) : pass_counts[i] = 0

TwoPersisted ==
    /\ total_processed = 2
    /\ store.kind = "array"
    /\ Len(store.data) = Len(LoadStore(initial_store)) + 2

\* C5 as stated: the run ends after frame 12 with exactly 2 records persisted.
C5_EndsAfterFrame12 ==
    C5_Scenario => (Len(pass_counts) = 12 /\ TwoPersisted)

\* C5: when the first pass persists 2 new messages and every later pass
\* persists none, the run ends after frame 11, the pass at which the
\* idle-count reaches 10, with exactly 2 records persisted in total.
C5_EndsAfterFrame11 ==
    C5_Scenario => (Len(pass_counts) = 11 /\ no_new_message_count = 10 /\ TwoPersisted)

C5_Witness == C5_Scenario /\ scrolls = 11

\* the window shows at least one message and every copy yields its text
ShowsCopyableText(s) ==
    /\ s.ui # << >>
    /\ \A i \in 1..Len(s.ui) : s.ui[i].kind = "text"

\* C6: once the viewport no longer moves, the scan ends through the
\* idle-count limit, so at most 10 further passes run, also when the frame
\* that stays on screen shows messages whose text can be copied.
C6_StuckScanTerminates ==
    (stuck /\ ShowsCopyableText(screen)) => Len(pass_counts) - stuck_at <= 10

\* out holds the non-empty messages of inp, each once, in order of first occurrence
FirstIndex(m, inp) == CHOOSE i \in 1..Len(inp) : inp[i] = m /\ \A j \in 1..(i - 1) : inp[j] # m

IsDistinctNonEmptyOf(out, inp) ==
    /\ \A i \in 1..Len(out) : out[i].text # ""
    /\ \A i \in 1..Len(out) : \A j \in 1..Len(out) : out[i] = out[j] => i = j
    /\ {out[i] : i \in 1..Len(out)} = {inp[i] : i \in {k \in 1..Len(inp) : inp[k].text # ""}}
    /\ \A i \in 1..Len(out) : \A j \in 1..Len(out) :
          i < j => FirstIndex(out[i], inp) < FirstIndex(out[j], inp)

\* C7: the records a pass has persisted are the distinct non-empty
\* {text, type} pairs it has extracted, each once, in order of first
\* occurrence, appended to whatever the store held when the pass began, so a
\* pair extracted again in a later pass is persisted again.
C7_PassPersistsDistinct ==
    (Running /\ (pc = "areas" \/ pass_counts # << >>)) =>
        /\ IsDistinctNonEmptyOf(processed_messages, extracted)
        /\ LoadStore(store) = pass_base \o processed_messages

\* one pass extracted the same text with both types and a pair twice, and the
\* store holds a record persisted by two different passes
C7_Witness ==
    /\ Running
    /\ Len(pass_counts) >= 1
    /\ Len(extracted) = 2
    /\ extracted[1] = extracted[2]
    /\ Len(processed_messages) = 1
    /\ Len(LoadStore(initial_store)) = 0
    /\ Len(store.data) >= 2
    /\ store.data[1] = store.data[2]

\* the step is a save_to_json call: an area was extracted whose message is
\* non-empty and not in the pass's working list
SaveCalled ==
    /\ pc = "areas"
    /\ Len(extracted') = Len(extracted) + 1
    /\ Last(extracted').text # ""
    /\ \A i \in 1..Len(processed_messages) : processed_messages[i] # Last(extracted')

\* C8: while the store file holds a JSON array, every save_to_json call
\* leaves the array as it was and adds the new record at its end, and no
\* other step changes the file: the array never shrinks and never reorders.
C8_StoreAppendOnly ==
    [][store.kind = "array" =>
         IF SaveCalled
         THEN store' = [kind |-> "array", data |-> store.data \o << Last(extracted') >>]
         ELSE store' = store]_vars

\* a store holding [hi/my_message] has been appended with bye/other_message
C8_Witness ==
    /\ initial_store = [kind |-> "array", data |-> << Hi >>]
    /\ store = [kind |-> "array",
                data |-> << Hi, [text |-> "bye", type |-> "other_message"] >>]

\* C9: a save_to_json call on a missing or corrupt store file does not fail
\* and leaves the file holding exactly the one new record.
C9_SaveOnMissingOrCorrupt ==
    [][(store.kind \in {"missing", "corrupt"} /\ SaveCalled) =>
         /\ pc' # "crashed"
         /\ store' = [kind |-> "array", data |-> << Last(extracted') >>]]_vars

\* a corrupt file has been overwritten by the first record
C9_Witness ==
    /\ initial_store.kind = "corrupt"
    /\ store.kind = "array"
    /\ Len(store.data) = 1
    /\ processed_messages = store.data

NoMatchingPixel(frame) ==
    \A y \in 1..frame.height : \A x \in 1..frame.width :
        /\ SubSeq(frame.rows[y][x], 1, 3) # << 0, 153, 255 >>
        /\ SubSeq(frame.rows[y][x], 1, 3) # << 241, 252, 247 >>

\* C10: for a frame in which no pixel has the Self or the Other colour,
\* find_message_areas returns the empty sequence.
C10_NoMatchNoAreas ==
    (pc = "detected" /\ NoMatchingPixel(screenshot)) => message_areas = << >>

\* such a frame with a pixel one channel off the Self colour
C10_Witness ==
    /\ pc = "detected"
    /\ NoMatchingPixel(screenshot)
    /\ \E y \in 1..screenshot.height : screenshot.rows[y][1] = NearSelf

\* row y of the frame holds a pixel of a message colour
ActiveRow(frame, y) == FirstMatch(frame, y) >= 0

\* rows a..b are active, every message-coloured pixel in them has colour c
BandOf(frame, a, b, c) ==
    /\ a <= b
    /\ \A y \in a..b :
         /\ ActiveRow(frame, y)
         /\ \A x \in 0..(frame.width - 1) :
              IsMessageColor(getpixel(frame, x, y)) => RGB(getpixel(frame, x, y)) = c

\* the frame's active rows are exactly the rows a..b, all of colour c
OneBand(frame, a, b, c) ==
    /\ BandOf(frame, a, b, c)
    /\ \A y \in 0..(frame.height - 1) : ActiveRow(frame, y) => y \in a..b

RoleName(c) == IF c = my_message_color THEN "my_message" ELSE "other_message"

Roles == {my_message_color, other_message_color}

Rows(frame) == 0..(frame.height - 1)

\* C11 as stated: a frame with exactly one band of role R gives exactly one
\* region running from the band's first row to its last, and the message
\* extracted for it is tagged with the role name of R.
C11_OneBandTaggedAlways ==
    pc = "classified" =>
        \A a \in Rows(screenshot), b \in Rows(screenshot), c \in Roles :
            OneBand(screenshot, a, b, c) =>
                /\ Len(message_areas) = 1
                /\ message_areas[1][2] = a
                /\ message_areas[1][4] = b
                /\ extracted[1].type = RoleName(c)

\* C11 amended: a frame with exactly one band of role R gives exactly one
\* region running from the band's first row to its last; the message extracted
\* for it is tagged with the role name of R when the safety check admits the
\* region's click point, and is the sentinel with empty type when it does not.
C11_OneBandTaggedWhenSafe ==
    pc = "classified" =>
        \A a \in Rows(screenshot), b \in Rows(screenshot), c \in Roles :
            OneBand(screenshot, a, b, c) =>
                /\ Len(message_areas) = 1
                /\ message_areas[1][2] = a
                /\ message_areas[1][4] = b
                /\ IF is_click_safe(ClickPoint(message_areas[1]))
                   THEN extracted[1] = [text |-> "stub", type |-> RoleName(c)]
                   ELSE extracted[1] = Sentinel

\* a band of the Other colour, three rows high, tagged other_message
C11_Witness ==
    /\ pc = "classified"
    /\ OneBand(screenshot, 1, 3, other_message_color)
    /\ Len(extracted) = 1
    /\ extracted[1].type = "other_message"

\* two bands of colour c, rows a1..b1 and a2..b2, nothing active elsewhere
TwoBands(frame, a1, b1, a2, b2, c) ==
    /\ b1 + 1 < a2
    /\ BandOf(frame, a1, b1, c)
    /\ BandOf(frame, a2, b2, c)
    /\ \A y \in Rows(frame) : ActiveRow(frame, y) => (y \in a1..b1 \/ y \in a2..b2)

\* C12 as stated: two bands of the same role whose rows are fewer than 5
\* apart give one merged region, and two regions when 5 or more apart.
C12_MergeTolerance ==
    pc = "detected" =>
        \A a1 \in Rows(screenshot), b1 \in Rows(screenshot),
           a2 \in Rows(screenshot), b2 \in Rows(screenshot), c \in Roles :
            TwoBands(screenshot, a1, b1, a2, b2, c) =>
                IF a2 - b1 < MergeGap
                THEN /\ Len(message_areas) = 1
                     /\ message_areas[1][2] = a1
                     /\ message_areas[1][4] = b2
                ELSE Len(message_areas) = 2

\* the for loop is about to handle a region
AtRegion == pc = "areas" /\ idx <= Len(message_areas)

\* the safety check refuses the click point of the region about to be handled
GuardRejects == AtRegion /\ ~is_click_safe(ClickPoint(message_areas[idx]))

\* C13: handling a region whose click point the safety check rejects moves no
\* pointer, issues no click and no key-chord, leaves the clipboard as it was,
\* yields the empty-text sentinel, and persists nothing.
C13_RejectedNoInteraction ==
    [][GuardRejects =>
         /\ pointer' = pointer
         /\ clicks' = clicks
         /\ chords' = chords
         /\ clipboard' = clipboard
         /\ extracted' = Append(extracted, Sentinel)
         /\ processed_messages' = processed_messages
         /\ store' = store]_vars

\* a rejected region has been handled, with text on offer, nothing was touched
C13_Witness ==
    /\ pc = "areas"
    /\ idx = 2
    /\ ~is_click_safe(ClickPoint(message_areas[1]))
    /\ screen.ui[1].kind = "text"
    /\ extracted = << Sentinel >>
    /\ clipboard = << "old" >>
    /\ pointer = << 0, 0 >>
    /\ pass_counts = << >>
    /\ store = initial_store

\* the guard admits the region about to be handled and the interaction fails
InteractionFails ==
    /\ AtRegion
    /\ is_click_safe(ClickPoint(message_areas[idx]))
    /\ screen.ui[idx].kind \in {"fail", "notext"}

\* C14: a failure in the interaction sequence (the clipboard cannot be opened,
\* or holds no text payload) does not leave copy_message: a result with empty
\* text is returned, nothing is persisted for it and the for loop moves on to
\* the next region.
C14_InteractionFailureAbsorbed ==
    [][InteractionFails =>
         /\ pc' = "areas"
         /\ idx' = idx + 1
         /\ Len(extracted') = Len(extracted) + 1
         /\ Last(extracted').text = ""
         /\ store' = store]_vars

\* the first region's copy failed and the pass is at its second region
C14_Witness ==
    /\ pc = "areas"
    /\ idx = 2
    /\ Len(message_areas) = 2
    /\ is_click_safe(ClickPoint(message_areas[1]))
    /\ screen.ui[1].kind = "fail"
    /\ extracted = << Sentinel >>

\* C15: without the target window the run ends before any scanning (no frame
\* captured, no pointer move, click, key-chord or scroll, the store as it
\* was); with it, the window is in the foreground whenever a frame is or has
\* been captured.
C15_WindowPrecondition ==
    /\ ~window =>
          /\ pc \in {"main", "nowindow"}
          /\ ~foreground
          /\ screenshot = FrameBlank
          /\ message_areas = << >>
          /\ pass_counts = << >>
          /\ pointer = << 0, 0 >>
          /\ clicks = {}
          /\ chords = {}
          /\ scrolls = 0
          /\ store = initial_store
    /\ pc \in {"loop", "areas", "done", "crashed"} => window /\ foreground

\* the run has ended for want of the window
C15_Witness == pc = "nowindow" /\ ~window

\* C16 as stated: the scan judges click safety against the points in the
\* calibration file, so no click of the scan lands inside the zone the file
\* describes.
C16_ScanUsesZoneFile ==
    zone_file # None => \A p \in clicks : is_click_safe_in(p, zone_file)

\* C16 amended: the scan judges click safety against the literal avoid_area
\* of qq.py, whatever the calibration file holds: a region is clicked exactly
\* when its click point is outside that literal's zone, and no step of the run
\* changes the literal or the file.
C16_ScanUsesLiteral ==
    /\ [][avoid_area' = avoid_area /\ zone_file' = zone_file]_vars
    /\ [][AtRegion =>
            ((pointer' = ClickPoint(message_areas[idx]))
               <=> is_click_safe_in(ClickPoint(message_areas[idx]), avoid_area))]_vars

\* the file holds a zone and the scan has clicked inside it
C16_Witness ==
    /\ zone_file # None
    /\ zone_file # avoid_area
    /\ \E p \in clicks : ~is_click_safe_in(p, zone_file)

\* top-left.x <= bottom-right.x and top-left.y <= bottom-right.y
WellFormed(zone) ==
    /\ zone[1][1] <= zone[4][1]
    /\ zone[1][2] <= zone[4][2]

\* C17 as stated: a zone whose top-left corner is right of or below its
\* bottom-right corner is never written to the calibration file and never
\* used by a safety check to answer.
C17_MalformedRejected ==
    /\ zone_file # None => WellFormed(zone_file)
    /\ (verdict.scan # "none" \/ verdict.tool # "none") => WellFormed(avoid_area)

\* the records the run has appended to the store so far
Appended ==
    SubSeq(LoadStore(store), Len(LoadStore(initial_store)) + 1, Len(LoadStore(store)))

\* C18: every record the scan appends to the store has a non-empty text and
\* the type my_message or other_message; no empty-text result is written.
C18_AppendedRecordsTyped ==
    \A i \in 1..Len(Appended) :
        /\ Appended[i].text # ""
        /\ Appended[i].type \in {"my_message", "other_message"}

\* a pass met an empty-text result and then persisted a record
C18_Witness ==
    /\ pc = "areas"
    /\ Len(extracted) = 2
    /\ extracted[1].text = ""
    /\ extracted[2].text # ""
    /\ Len(Appended) = 1

\* C19 as stated: once scanning has begun no persistence failure leaves
\* save_to_json and the scan loop; the run is never ended by one.
C19_NoPersistenceFailureEndsRun == pc # "crashed"

\* the for loop has handled every region of the frame
PassEnds == pc = "areas" /\ idx > Len(message_areas)

\* every extraction of the pass gave empty text
AllEmpty == \A i \in 1..Len(extracted) : extracted[i].text = ""

\* C20: at the end of a pass the idle-count becomes its previous value plus 1
\* when the pass persisted nothing and 0 otherwise; a pass whose extractions
\* all gave empty text (rejected, failed or empty) is idle: the idle-count
\* goes up by one and the store is as it was when the pass began.
C20_IdleCountUpdate ==
    [][PassEnds =>
         /\ no_new_message_count' =
              IF Len(LoadStore(store)) = Len(pass_base)
              THEN no_new_message_count + 1 ELSE 0
         /\ AllEmpty =>
              /\ no_new_message_count' = no_new_message_count + 1
              /\ store = pass_store
              /\ store' = store]_vars

\* a pass that persisted was followed by a pass over regions that all gave
\* empty text
C20_Witness ==
    /\ pc = "loop"
    /\ Len(pass_counts) = 2
    /\ pass_counts[1] > 0
    /\ pass_counts[2] = 0
    /\ extracted # << >>
    /\ AllEmpty
    /\ no_new_message_count = 1
    /\ store = pass_store

\* the detector has run on the frame
Detected == pc \in {"detected", "classified"}

\* region i covers row y
Covers(i, y) == message_areas[i][2] <= y /\ y <= message_areas[i][4]

\* C21: the regions come in strictly increasing row order with disjoint row
\* ranges, each range a maximal run of active rows (closed by the first row
\* without a matching pixel or by the end of the frame), and the ranges
\* together are exactly the active rows.
C21_RegionsPartitionActiveRows ==
    Detected =>
        /\ \A i \in 1..Len(message_areas) :
              /\ message_areas[i][2] <= message_areas[i][4]
              /\ i < Len(message_areas) =>
                    message_areas[i][4] < message_areas[i + 1][2]
              /\ message_areas[i][4] + 1 < screenshot.height =>
                    ~ActiveRow(screenshot, message_areas[i][4] + 1)
        /\ \A y \in Rows(screenshot) :
              ActiveRow(screenshot, y) <=>
                  \E i \in 1..Len(message_areas) : Covers(i, y)

\* two regions with an inactive row between them, the second one still open
\* when the last row of the frame is reached
C21_Witness ==
    /\ Detected
    /\ Len(message_areas) = 2
    /\ message_areas[1][4] + 1 < message_areas[2][2]
    /\ message_areas[2][2] < message_areas[2][4]
    /\ message_areas[2][4] = screenshot.height - 1

\* C22 as stated: every region has min_x <= max_x and min_y <= max_y and
\* holds the leftmost matching pixel of each row it covers between its min_x
\* and max_x.
C22_RegionBoundsLeftmostPixels ==
    Detected =>
        \A i \in 1..Len(message_areas) :
            /\ message_areas[i][1] <= message_areas[i][3]
            /\ message_areas[i][2] <= message_areas[i][4]
            /\ \A y \in Rows(screenshot) :
                  Covers(i, y) =>
                      /\ message_areas[i][1] <= FirstMatch(screenshot, y)
                      /\ FirstMatch(screenshot, y) <= message_areas[i][3]

\* the frame holds the click point of region i
InteriorInFrame(i) ==
    /\ message_areas[i][1] + ClickOffset < screenshot.width
    /\ message_areas[i][2] + ClickOffset < screenshot.height

\* the frame's colour at the click point of region i
InteriorColor(i) ==
    RGB(getpixel(screenshot, message_areas[i][1] + ClickOffset,
                             message_areas[i][2] + ClickOffset))

\* the frame's colour at the top-left corner of region i
CornerColor(i) ==
    RGB(getpixel(screenshot, message_areas[i][1], message_areas[i][2]))

\* C23 as stated: the message of a region (one the safety check admits) is
\* tagged my_message exactly when the frame's pixel at the region's top-left
\* corner moved inward by the 5-pixel offset has the Self colour.
C23_RoleFromInteriorPixel ==
    pc = "classified" =>
        \A i \in 1..Len(message_areas) :
            (InteriorInFrame(i) /\ is_click_safe(ClickPoint(message_areas[i]))) =>
                (extracted[i].type = "my_message"
                    <=> InteriorColor(i) = my_message_color)

\* C23 amended: the role is taken from the frame's pixel at the region's
\* top-left corner itself (min_x, min_y), with no offset: a message the safety
\* check admits is tagged my_message exactly when that pixel has the Self
\* colour and other_message otherwise; a rejected one has the empty type.
C23_RoleFromCornerPixel ==
    pc = "classified" =>
        \A i \in 1..Len(message_areas) :
            IF is_click_safe(ClickPoint(message_areas[i]))
            THEN extracted[i].type =
                   (IF CornerColor(i) = my_message_color
                    THEN "my_message" ELSE "other_message")
            ELSE extracted[i].type = ""

\* a region whose corner is Self-coloured and whose click point is
\* Other-coloured has been tagged my_message
C23_Witness ==
    /\ pc = "classified"
    /\ \E i \in 1..Len(message_areas) :
         /\ InteriorInFrame(i)
         /\ CornerColor(i) = my_message_color
         /\ InteriorColor(i) = other_message_color
         /\ extracted[i].type = "my_message"

\* C24 as stated: the anchor changes only at the end of a pass that persisted
\* a message, to that pass's last region; a pass that persisted nothing
\* leaves it as it was; once set it is never cleared.
C24_AnchorOnlyWhenPersisted ==
    /\ [][PassEnds =>
            IF Len(processed_messages) > 0
            THEN last_message_area' = Last(message_areas)
            ELSE last_message_area' = last_message_area]_vars
    /\ [][last_message_area # None => last_message_area' # None]_vars

\* C24 amended: the anchor changes only at the end of a pass, and there it
\* becomes the pass's last detected region whenever the pass detected a
\* region, whether or not anything was persisted; a pass without regions
\* leaves it as it was; once set it is never cleared.
C24_AnchorWhenRegions ==
    /\ [][IF PassEnds
          THEN IF message_areas # << >>
               THEN last_message_area' = Last(message_areas)
               ELSE last_message_area' = last_message_area
          ELSE last_message_area' = last_message_area]_vars
    /\ [][last_message_area # None => last_message_area' # None]_vars

\* the first pass persisted nothing and set the anchor
C24_Witness ==
    /\ pc = "loop"
    /\ pass_counts = << 0 >>
    /\ message_areas # << >>
    /\ last_message_area = Last(message_areas)

\* C25: a click, a key-chord or a clipboard change happens only while the for
\* loop handles a region of the frame captured in this pass, at that region's
\* click point, and the regions are handled in detection order; a scroll is
\* issued exactly once at the end of every pass, the last one included, so
\* outside a pass the number of scrolls equals the number of passes.
C25_PassOrder ==
    /\ [](pc \in {"loop", "done"} => scrolls = Len(pass_counts))
    /\ [](pc = "areas" =>
            /\ scrolls = Len(pass_counts)
            /\ screenshot = screen.frame
            /\ message_areas = find_message_areas(screenshot)
            /\ Len(extracted) = idx - 1)
    /\ [][(clicks' # clicks \/ chords' # chords \/ clipboard' # clipboard) =>
            /\ AtRegion
            /\ clicks' \subseteq clicks \cup {ClickPoint(message_areas[idx])}
            /\ chords' \subseteq chords \cup {ClickPoint(message_areas[idx])}]_vars
    /\ [][(pc = "areas" /\ pc' = "areas") => idx' = idx + 1]_vars
    /\ [][scrolls' # scrolls =>
            PassEnds /\ scrolls' = scrolls + 1 /\ pc' = "loop"]_vars
    /\ [][PassEnds => scrolls' = scrolls + 1]_vars

\* the run has ended after its tenth idle pass, with clicks made on the way
C25_Witness ==
    /\ pc = "done"
    /\ scrolls = Len(pass_counts)
    /\ clicks # {}
    /\ no_new_message_count = IdleLimit

\* C26 as stated: when record_avoid_area has finished, four points were
\* recorded, the i-th of them where the operator made the i-th right-click,
\* the file holds exactly those four points, and loading the file gives them
\* back in the same order.
C26_OnePointPerClick ==
    pc \in {"recorded", "guard"} =>
        /\ Len(recorded) = CornerCount
        /\ Len(presses) >= CornerCount
        /\ \A i \in 1..CornerCount : recorded[i] = presses[i]
        /\ zone_file = recorded
        /\ pc = "guard" => avoid_area = recorded

\* C27 as stated: when the copy step of a region leaves the clipboard as the
\* copy step of the region before it set it, nothing is persisted for the
\* later region.
C27_StaleClipboardNotPersisted ==
    [][(/\ AtRegion
        /\ idx > 1
        /\ screen.ui[idx].kind = "unchanged"
        /\ screen.ui[idx - 1].kind = "text"
        /\ is_click_safe(ClickPoint(message_areas[idx - 1])))
       => store' = store]_vars

RECURSIVE Sum(_)
Sum(seq) == IF seq = << >> THEN 0 ELSE seq[1] + Sum(Tail(seq))

\* C28: the count a pass reports is the number of records the pass appended
\* to the store; between passes and at loop exit total_processed is the sum of
\* the per-pass counts, and a store that began as an array has grown by
\* exactly total_processed records.
C28_CountsMatchStore ==
    /\ [](pc \in {"loop", "done"} =>
            /\ total_processed = Sum(pass_counts)
            /\ initial_store.kind = "array" =>
                  Len(LoadStore(store)) = Len(initial_store.data) + total_processed)
    /\ [][PassEnds =>
            Last(pass_counts') = Len(LoadStore(store)) - Len(pass_base)]_vars

\* the loop has ended on a store that began as an array and gained two records
C28_Witness ==
    /\ pc = "done"
    /\ initial_store.kind = "array"
    /\ total_processed = 2
    /\ Len(store.data) = Len(initial_store.data) + 2

\* the rows of the written sheets, in sheet order
RECURSIVE WrittenRows(_)
WrittenRows(sheets) ==
    IF sheets = << >> THEN << >>
    ELSE sheets[1].rows \o WrittenRows(Tail(sheets))

\* the rows of the messages that convert, in input order
RECURSIVE ConvertedRows(_)
ConvertedRows(msgs) ==
    IF msgs = << >> THEN << >>
    ELSE LET r == convert_message_to_row(msgs[1])
         IN  (IF r.kind = "row" THEN << r.row >> ELSE << >>)
                 \o ConvertedRows(Tail(msgs))

\* what the call is to have done once it has returned
SheetsAsPromised ==
    /\ \A k \in 1..Len(written) :
         /\ Len(written[k].rows) >= 1
         /\ Len(written[k].rows) <= max_rows_per_sheet
    /\ WrittenRows(written) = ConvertedRows(messages)
    /\ result[1] = Len(written)
    /\ result[2] + Len(WrittenRows(written)) = Len(messages)
    /\ \A j \in 1..Len(written), k \in 1..Len(written) :
         j # k => written[j].name # written[k].name

\* C29 as stated: for every message list and every max_rows_per_sheet >= 1
\* the call returns, having written sheets of 1 to max_rows_per_sheet rows
\* that hold the converted messages in input order, under distinct names,
\* and the returned pair counts the sheets and the failures.
C29_SheetsPartitionRows ==
    pc \in {"returned", "raised"} => (result # None /\ SheetsAsPromised)

\* C30 as stated: whatever the shape of a message, its conversion gives a row
\* or None without raising, every None is counted as one failure, and the
\* loop goes on to the next message.
C30_ConversionNeverRaises ==
    /\ pc # "raised"
    /\ total_converted + total_failed = msg_idx
    /\ total_converted = Len(ConvertedRows(SubSeq(messages, 1, msg_idx)))

====
